---------------------------- MODULE Spec2Model ----------------------------
(***************************************************************************)
(* Model of the macro pre-assembler of the maman14 assembler.              *)
(*                                                                         *)
(* The repository holds two implementations of                             *)
(* process_pre_assembly_for_file:                                          *)
(*   "list"   - src/main.c ("pre_assembler copy.c"): one pass, macros in   *)
(*              a linked list, the .am file opened lazily;                 *)
(*   "buffer" - src/pre_assembler.c: two passes, macros in a reallocated   *)
(*              array with byte-buffer bodies.                             *)
(* Both are modelled; the variable draft says which one a behaviour runs.  *)
(*                                                                         *)
(* Text is modelled character by character: a C string is a sequence of    *)
(* one-character strings (without the terminating NUL).                    *)
(***************************************************************************)
EXTENDS Integers, Sequences, FiniteSets, TLC

(***************************************************************************)
(* Program constants (definitions.h)                                       *)
(***************************************************************************)
MAX_LINE_LENGTH == 80

MAX_LABEL_LENGTH == 30

(***************************************************************************)
(* Bounds of the model                                                     *)
(***************************************************************************)
\* longest input file, in lines
MaxLines == 4

\* longest input file of the runs in which an allocation fails
MaxLinesLowMemory == 3

\* largest magnitude of the small values convert_decimal_to_unique_base4
\* is called with
MaxSmallValue == 1100

\* longest of the short strings is_legal_label is called with
MaxShortLabel == 3

\* most calls of report_error in a behaviour of SpecErrors
MaxReports == 3

\* of two files processed one after the other by the same process: the
\* longest first file and the longest second file
MaxLinesBefore == 3

MaxLinesAfter == 1

(***************************************************************************)
(* <ctype.h> and <string.h> as used by the sources                         *)
(***************************************************************************)
Lower == {"a","b","c","d","e","f","g","h","i","j","k","l","m","n","o","p","q","r","s","t","u","v","w","x","y","z"}

Upper == {"A","B","C","D","E","F","G","H","I","J","K","L","M","N","O","P","Q","R","S","T","U","V","W","X","Y","Z"}

Digit == {"0","1","2","3","4","5","6","7","8","9"}

\* isspace in the C locale ('\v' has no TLA+ spelling and is left out)
is_whitespace(c) == c \in {" ", "\t", "\n", "\r", "\f"}

is_alpha(c) == c \in Lower \cup Upper

is_alphanumeric(c) == c \in Lower \cup Upper \cup Digit \cup {"_"}

\* the delimiter set " \t\n\r" every strtok call of the sources uses
IsDelim(c) == c \in {" ", "\t", "\n", "\r"}

Min(a, b) == IF a < b THEN a ELSE b

\* the part of s from index i to its end
From(s, i) == SubSeq(s, i, Len(s))

\* strncpy(dst, src, n); dst[n] = '\0'
Strncpy(s, n) == SubSeq(s, 1, Min(Len(s), n))

\* strncmp(s, p, Len(p)) == 0
HasPrefix(s, p) == Len(s) >= Len(p) /\ SubSeq(s, 1, Len(p)) = p

\* number of leading characters of s that satisfy isspace
RECURSIVE LeadingWs(_)
LeadingWs(s) ==
    IF s # <<>> /\ is_whitespace(Head(s)) THEN 1 + LeadingWs(Tail(s)) ELSE 0

\* skip_whitespace: the string from its first non-whitespace character on
skip_whitespace(s) == From(s, LeadingWs(s) + 1)

\* the index "end" of trim_whitespace: walks left from e while end > str
RECURSIVE TrimEnd(_, _, _)
TrimEnd(s, b, e) ==
    IF e > b /\ is_whitespace(s[e]) THEN TrimEnd(s, b, e - 1) ELSE e

\* trim_whitespace, the returned pointer: leading and trailing blanks gone
trim_whitespace(s) ==
    LET b == LeadingWs(s) + 1
    IN  IF b > Len(s) THEN <<>> ELSE SubSeq(s, b, TrimEnd(s, b, Len(s)))

\* trim_whitespace, the buffer it leaves behind (what a caller that drops
\* the return value goes on to use): only the trailing blanks are cut, and
\* an all-blank string is left as it is
TrimInPlace(s) ==
    LET b == LeadingWs(s) + 1
    IN  IF b > Len(s) THEN s ELSE SubSeq(s, 1, TrimEnd(s, b, Len(s)))

\* number of leading delimiter characters
RECURSIVE LeadingDelims(_)
LeadingDelims(s) ==
    IF s # <<>> /\ IsDelim(Head(s)) THEN 1 + LeadingDelims(Tail(s)) ELSE 0

\* number of leading non-delimiter characters
RECURSIVE TokenLen(_)
TokenLen(s) ==
    IF s # <<>> /\ ~IsDelim(Head(s)) THEN 1 + TokenLen(Tail(s)) ELSE 0

\* the successive results of strtok(s, " \t\n\r"), strtok(NULL, ...), ...
RECURSIVE Strtok(_)
Strtok(s) ==
    LET t == From(s, LeadingDelims(s) + 1)
        n == TokenLen(t)
    IN  IF t = <<>> THEN <<>>
        ELSE <<SubSeq(t, 1, n)>> \o Strtok(From(t, n + 2))

\* strstr(s, p): index of the first occurrence of p in s, 0 when absent
RECURSIVE StrstrFrom(_, _, _)
StrstrFrom(s, p, i) ==
    IF i + Len(p) - 1 > Len(s) THEN 0
    ELSE IF SubSeq(s, i, i + Len(p) - 1) = p THEN i
    ELSE StrstrFrom(s, p, i + 1)

\* a search that finds p only where the string begins with it
StrstrAtStart(s, p) ==
    IF Len(p) <= Len(s) /\ SubSeq(s, 1, Len(p)) = p THEN 1 ELSE 0

Strstr(s, p) == StrstrFrom(s, p, 1)

\* strchr(s, c): index of the first c in s, 0 when absent
RECURSIVE StrchrFrom(_, _, _)
StrchrFrom(s, c, i) ==
    IF i > Len(s) THEN 0
    ELSE IF s[i] = c THEN i
    ELSE StrchrFrom(s, c, i + 1)

Strchr(s, c) == StrchrFrom(s, c, 1)

\* concatenation of a sequence of strings
RECURSIVE Flat(_)
Flat(ss) == IF ss = <<>> THEN <<>> ELSE Head(ss) \o Flat(Tail(ss))

(***************************************************************************)
(* utils.c                                                                 *)
(***************************************************************************)
opcode_names ==
    << <<"m","o","v">>, <<"c","m","p">>, <<"a","d","d">>, <<"s","u","b">>,
       <<"n","o","t">>, <<"c","l","r">>, <<"l","e","a">>, <<"i","n","c">>,
       <<"d","e","c">>, <<"j","m","p">>, <<"b","n","e">>, <<"r","e","d">>,
       <<"p","r","n">>, <<"j","s","r">>, <<"r","t","s">>, <<"s","t","o","p">> >>

directive_names ==
    << <<".","d","a","t","a">>, <<".","s","t","r","i","n","g">>,
       <<".","m","a","t">>, <<".","e","n","t","r","y">>,
       <<".","e","x","t","e","r","n">> >>

register_names ==
    << <<"r","0">>, <<"r","1">>, <<"r","2">>, <<"r","3">>,
       <<"r","4">>, <<"r","5">>, <<"r","6">>, <<"r","7">> >>

Range(f) == {f[i] : i \in DOMAIN f}

is_reserved_keyword(str) ==
    \/ str \in Range(opcode_names)
    \/ str \in Range(directive_names)
    \/ str \in Range(register_names)

\* a length test that also rejects names of exactly MAX_LABEL_LENGTH
is_legal_label_below_limit(label) ==
    /\ label # <<>>
    /\ is_alpha(label[1])
    /\ \A i \in 2..Len(label) : is_alphanumeric(label[i])
    /\ Len(label) < MAX_LABEL_LENGTH
    /\ ~is_reserved_keyword(label)

is_legal_label(label) ==
    /\ label # <<>>
    /\ is_alpha(label[1])
    /\ \A i \in 2..Len(label) : is_alphanumeric(label[i])
    /\ Len(label) <= MAX_LABEL_LENGTH
    /\ ~is_reserved_keyword(label)

\* base4_chars: BASE4_A .. BASE4_D
base4_chars == <<"a", "b", "c", "d">>

\* a mask that drops the sign bit of the 10-bit word as well
MaskToNineBits(decimal_value) == decimal_value % 2^9

\* (unsigned int)decimal_value & 0x3FF for a 32-bit int: the conversion to
\* unsigned adds a multiple of 2^32 and the mask keeps the ten low bits
MaskToWord(decimal_value) == decimal_value % 2^10

\* the loop of convert_decimal_to_unique_base4: iteration i stores the
\* character of the two lowest bits at base4_buffer[4 - i] and shifts
RECURSIVE Base4Loop(_, _, _)
Base4Loop(i, temp_value, base4_buffer) ==
    IF i >= 5 THEN base4_buffer
    ELSE Base4Loop(i + 1, temp_value \div 4,
                   [base4_buffer EXCEPT ![5 - i] = base4_chars[(temp_value % 4) + 1]])

\* the five characters left in base4_buffer ("?" stands for a character
\* that was never written)
convert_decimal_to_unique_base4(decimal_value) ==
    Base4Loop(0, MaskToWord(decimal_value), <<"?", "?", "?", "?", "?">>)

is_empty_or_comment_line(line) ==
    LET t == skip_whitespace(line)
    IN  t = <<>> \/ t[1] = ";"

(***************************************************************************)
(* error_handler.h: the ErrorType values the pre-assembler reports          *)
(***************************************************************************)
ERROR_FILE_OPEN_FAILED == "ERROR_FILE_OPEN_FAILED"

ERROR_LINE_TOO_LONG == "ERROR_LINE_TOO_LONG"

ERROR_EMPTY_OR_COMMENT_FILE == "ERROR_EMPTY_OR_COMMENT_FILE"

ERROR_MACRO_NAME_RESERVED_KEYWORD == "ERROR_MACRO_NAME_RESERVED_KEYWORD"

ERROR_MACRO_NAME_INVALID_FORMAT == "ERROR_MACRO_NAME_INVALID_FORMAT"

ERROR_MACRO_DEFINITION_SYNTAX == "ERROR_MACRO_DEFINITION_SYNTAX"

ERROR_NESTED_MACRO_DEFINITION == "ERROR_NESTED_MACRO_DEFINITION"

ERROR_UNEXPECTED_MACRO_END == "ERROR_UNEXPECTED_MACRO_END"

ERROR_UNCLOSED_MACRO_DEFINITION == "ERROR_UNCLOSED_MACRO_DEFINITION"

ERROR_LABEL_REDEFINITION == "ERROR_LABEL_REDEFINITION"

ERROR_GENERIC_SYNTAX_ERROR == "ERROR_GENERIC_SYNTAX_ERROR"

ERROR_INTERNAL_ERROR == "ERROR_INTERNAL_ERROR"

\* the "Fatal Error: Memory allocation failed ..." lines the list draft
\* prints to stderr without going through report_error
FATAL_ALLOCATION == "FATAL_ALLOCATION"

(***************************************************************************)
(* Keywords                                                                *)
(***************************************************************************)
mcro == <<"m","c","r","o">>

mcroend == <<"m","c","r","o","e","n","d">>

(***************************************************************************)
(* src/main.c ("pre_assembler copy.c"): the line classifiers of the list   *)
(* draft.  Each returns its C result and the error kinds it reports.       *)
(***************************************************************************)
\* the characters after position p, past the run of ' ' and '\t'
RECURSIVE SkipBlanks(_, _)
SkipBlanks(s, p) ==
    IF p <= Len(s) /\ s[p] \in {" ", "\t"} THEN SkipBlanks(s, p + 1) ELSE p

list_is_macro_definition_start(line, in_def) ==
    LET toks == Strtok(Strncpy(line, MAX_LINE_LENGTH))
        No(errs) == [ret |-> FALSE, name |-> <<>>, errs |-> errs]
    IN  IF toks = <<>> \/ toks[1] # mcro THEN No(<<>>)
        ELSE IF Len(toks) < 2 THEN No(<<ERROR_MACRO_DEFINITION_SYNTAX>>)
        ELSE
          LET macro_name == toks[2]
              macro_name_pos == Strstr(line, macro_name)
              after == SkipBlanks(line, macro_name_pos + Len(macro_name))
          IN  IF macro_name_pos = 0 THEN No(<<ERROR_INTERNAL_ERROR>>)
              ELSE IF ~(after > Len(line) \/ line[after] \in {"\n", ";"})
                   THEN No(<<ERROR_MACRO_DEFINITION_SYNTAX>>)
              ELSE IF ~is_legal_label(macro_name)
                   THEN No(<<ERROR_MACRO_NAME_INVALID_FORMAT>>)
              ELSE IF is_reserved_keyword(macro_name)
                   THEN No(<<ERROR_MACRO_NAME_RESERVED_KEYWORD>>)
              ELSE IF in_def THEN No(<<ERROR_NESTED_MACRO_DEFINITION>>)
              ELSE [ret |-> TRUE,
                    name |-> Strncpy(macro_name, MAX_LABEL_LENGTH),
                    errs |-> <<>>]

list_is_macro_definition_end(line) ==
    LET toks == Strtok(Strncpy(line, MAX_LINE_LENGTH))
    IN  IF toks = <<>> \/ toks[1] # mcroend
        THEN [ret |-> FALSE, errs |-> <<>>]
        ELSE IF Len(toks) >= 2 /\ toks[2][1] # ";"
        THEN [ret |-> FALSE, errs |-> <<ERROR_MACRO_DEFINITION_SYNTAX>>]
        ELSE [ret |-> TRUE, errs |-> <<>>]

\* find_macro_in_list / find_macro: index of the first entry called name,
\* 0 (NULL) when there is none
RECURSIVE FindFrom(_, _, _)
FindFrom(table, name, i) ==
    IF i > Len(table) THEN 0
    ELSE IF table[i].name = name THEN i
    ELSE FindFrom(table, name, i + 1)

find_macro_in_list(table, macro_name) == FindFrom(table, macro_name, 1)

\* the macro-call test process_pre_assembly_for_file does inline, on the
\* strtok tokens of the trimmed line: the entry to expand (0 for none) and
\* the error kinds reported
list_call_check(table, toks) ==
    LET found == IF toks = <<>> THEN 0 ELSE find_macro_in_list(table, toks[1])
    IN  IF found # 0 /\ Len(toks) >= 2 /\ toks[2][1] # ";"
        THEN [called |-> 0, errs |-> <<ERROR_GENERIC_SYNTAX_ERROR>>]
        ELSE [called |-> found, errs |-> <<>>]

(***************************************************************************)
(* src/pre_assembler.c: the line classifiers of the buffer draft           *)
(***************************************************************************)
\* number of leading characters that are not isspace
RECURSIVE WordLen(_)
WordLen(s) ==
    IF s # <<>> /\ ~is_whitespace(Head(s)) THEN 1 + WordLen(Tail(s)) ELSE 0

extract_macro_name(line, buffer_size) ==
    LET trimmed_line == trim_whitespace(Strncpy(line, MAX_LINE_LENGTH))
        t == skip_whitespace(From(trimmed_line, Len(mcro) + 1))
        n == WordLen(t)
        rest == skip_whitespace(From(t, n + 1))
        No == [ret |-> FALSE, name |-> <<>>]
    IN  IF ~HasPrefix(trimmed_line, mcro) THEN No
        ELSE IF n = 0 THEN No
        ELSE IF n >= MAX_LABEL_LENGTH + 1 THEN No
        ELSE IF rest # <<>> /\ rest[1] # ";" THEN No
        ELSE IF n >= buffer_size THEN No
        ELSE [ret |-> TRUE, name |-> SubSeq(t, 1, n)]

buf_is_macro_definition_start(line, buffer_size) ==
    extract_macro_name(line, buffer_size)

buf_is_macro_definition_end(line) ==
    LET trimmed_line == trim_whitespace(Strncpy(line, MAX_LINE_LENGTH))
        rest == skip_whitespace(From(trimmed_line, Len(mcroend) + 1))
    IN  /\ HasPrefix(trimmed_line, mcroend)
        /\ (rest = <<>> \/ rest[1] = ";")

is_valid_macro_name(name) ==
    /\ name # <<>>
    /\ Len(name) <= MAX_LABEL_LENGTH
    /\ name[1] # "_"
    /\ is_alpha(name[1])
    /\ \A i \in 1..Len(name) : is_alphanumeric(name[i])
    /\ ~is_reserved_keyword(name)

find_macro(table, name) == FindFrom(table, name, 1)

\* is_macro_call of the buffer draft, up to its table lookup: the token
\* it copies into macro_name, <<>> when it returns NULL before the lookup
buf_call_token(line) ==
    LET t0 == trim_whitespace(Strncpy(line, MAX_LINE_LENGTH))
        colon == Strchr(t0, ":")
        t == IF colon # 0 THEN skip_whitespace(From(t0, colon + 1)) ELSE t0
        n == WordLen(t)
    IN  IF n = 0 THEN <<>>
        ELSE IF n > MAX_LABEL_LENGTH THEN <<>>
        ELSE SubSeq(t, 1, n)

\* is_macro_call of the buffer draft: index of the called entry, 0 for NULL
buf_is_macro_call(table, token) ==
    IF token = <<>> THEN 0 ELSE find_macro(table, token)

(***************************************************************************)
(* Input lines.  A file is a sequence of names of LineText lines; a line    *)
(* carries its newline, as fgets returns it.                               *)
(***************************************************************************)
\* n characters of ordinary text
Filler(n) == [i \in 1..n |-> "z"]

FOO == <<"F","O","O">>

BAR == <<"B","A","R">>

LineText ==
    [ StartFOO       |-> <<"m","c","r","o"," ","F","O","O","\n">>,
      PlainAdd       |-> <<"a","d","d"," ","r","1",",","r","2","\n">>,
      EndLine        |-> <<"m","c","r","o","e","n","d","\n">>,
      CallFOO        |-> <<"F","O","O","\n">>,
      CommentLine    |-> <<";"," ","c","\n">>,
      StartBAR       |-> <<"m","c","r","o"," ","B","A","R","\n">>,
      \* one word that merely begins with the letters of mcro
      McroxLine      |-> <<"m","c","r","o","x","\n">>,
      \* mcroend followed at once by a comment of 27 characters
      EndWithComment |-> <<"m","c","r","o","e","n","d",";","z","z","z","z","z","z","z","z","z","z","z","z","z","z","z","z","z","z","z","z","z","z","z","z","z","z","z","\n">>,
      \* start lines whose name is an opcode, a register, a directive
      StartMov       |-> <<"m","c","r","o"," ","m","o","v","\n">>,
      StartR3        |-> <<"m","c","r","o"," ","r","3","\n">>,
      StartData      |-> <<"m","c","r","o"," ",".","d","a","t","a","\n">>,
      \* start lines with a one-letter name: a occurs nowhere else on its
      \* line, m is also the first letter of the keyword before it
      StartA         |-> <<"m","c","r","o"," ","a","\n">>,
      StartM         |-> <<"m","c","r","o"," ","m","\n">>,
      \* the name FOO followed by an operand, and preceded by a label
      CallFOOExtra   |-> <<"F","O","O"," ","r","1","\n">>,
      LabelCallFOO   |-> <<"L","1",":"," ","F","O","O","\n">>,
      \* start lines whose name is one of the two keywords
      StartMcro      |-> <<"m","c","r","o"," ","m","c","r","o","\n">>,
      StartMcroend   |-> <<"m","c","r","o"," ","m","c","r","o","e","n","d","\n">>,
      \* lines one character longer than allowed: filler only, and filler
      \* followed by the text of a start line
      LongPlain      |-> Filler(MAX_LINE_LENGTH + 1) \o <<"\n">>,
      LongStart      |-> Filler(MAX_LINE_LENGTH + 1) \o
                         <<"m","c","r","o"," ","F","O","O","\n">> ]

\* the lines the files of Spec are made of
CoreLines ==
    {"StartFOO", "PlainAdd", "EndLine", "CallFOO", "CommentLine", "StartBAR",
     "McroxLine", "EndWithComment"}

\* the lines the files of SpecNames are made of
NameLines ==
    {"StartMov", "StartR3", "StartData", "StartA", "StartM", "EndLine",
     "PlainAdd"}

\* the lines the files of SpecKeywords are made of
KeywordLines ==
    {"StartMcro", "StartMcroend", "PlainAdd", "EndLine", "EndWithComment"}

\* the lines the files of SpecCalls are made of
CallLines ==
    {"StartFOO", "PlainAdd", "EndLine", "EndWithComment", "CallFOO",
     "CallFOOExtra", "LabelCallFOO"}

\* the lines the files of SpecStored are made of
StoredNameLines == {"StartA", "StartMov", "PlainAdd", "EndWithComment"}

\* the lines the files of SpecBoth are made of
PlainMacroLines ==
    {"StartFOO", "PlainAdd", "EndLine", "CallFOO", "CommentLine"}

\* the lines the files of SpecLong are made of
LongLines ==
    {"LongPlain", "LongStart", "PlainAdd", "StartFOO", "EndLine", "CallFOO"}

\* the lines the files of SpecSequential are made of
SequentialLines ==
    {"StartFOO", "PlainAdd", "EndLine", "EndWithComment", "CallFOO"}

\* all files of at most n lines over the lines named in ids
Files(ids, n) == UNION {[1..k -> ids] : k \in 0..n}

\* what an .am file left by an earlier run holds
StaleContent == << <<"o","l","d","\n">> >>

\* heap value of a run in which no allocation fails
NoLimit == 99

\* the environments a run is checked in: whether an .am file is already
\* there, whether the .as file and the .am file can be opened, and how many
\* allocations succeed before the heap is exhausted
Environments ==
    { [stale |-> FALSE, in_ok |-> TRUE,  out_ok |-> TRUE,  heap |-> NoLimit],
      [stale |-> TRUE,  in_ok |-> TRUE,  out_ok |-> TRUE,  heap |-> NoLimit],
      [stale |-> FALSE, in_ok |-> FALSE, out_ok |-> TRUE,  heap |-> NoLimit],
      [stale |-> FALSE, in_ok |-> TRUE,  out_ok |-> FALSE, heap |-> NoLimit],
      [stale |-> FALSE, in_ok |-> TRUE,  out_ok |-> TRUE,  heap |-> 0],
      [stale |-> FALSE, in_ok |-> TRUE,  out_ok |-> TRUE,  heap |-> 1] }

(***************************************************************************)
(* State                                                                   *)
(***************************************************************************)
VARIABLES
    draft,                 \* "list" (src/main.c) or "buffer" (src/pre_assembler.c)
    input,                 \* the .as file: a sequence of line names
    in_ok,                 \* fopen of the .as file succeeds
    out_ok,                \* fopen of the .am file succeeds
    heap,                  \* allocations that still succeed
    am_exists,             \* the .am file exists on disk
    am_content,            \* what it holds: the strings written, in order
    pc,                    \* position in process_pre_assembly_for_file
    next_line,             \* input line the next fgets reads from
    offset,                \* characters of that line already consumed
    line_number,           \* g_current_line_number / line_number
    in_macro_definition,   \* g_in_macro_definition / in_macro_definition
    macros,                \* g_macros_list_head / g_macros: the macro table
    g_current_macro,       \* list: index of the macro being defined, 0 = NULL
    has_non_empty_lines,   \* list
    overall_success,       \* list
    current_macro_name,    \* buffer
    macro_body,            \* buffer: the first macro_body_size bytes
    macro_body_capacity,   \* buffer: 0 when macro_body is NULL
    g_macro_capacity,      \* buffer
    has_errors_in_file,    \* buffer
    am_file,               \* am_file / output_file: "NULL" or "open"
    g_errors_occurred,     \* error_handler.c
    reports,               \* stderr: <<line number, error kind>> in order
    ret,                   \* the value returned (meaningful when pc = "done")
    run,                   \* how many calls this process has made so far
    arg,                   \* the argument of a library function called alone
    history                \* what earlier calls did, where a property needs it

vars == <<draft, input, in_ok, out_ok, heap, am_exists, am_content, pc,
          next_line, offset, line_number, in_macro_definition, macros,
          g_current_macro, has_non_empty_lines, overall_success,
          current_macro_name, macro_body, macro_body_capacity,
          g_macro_capacity, has_errors_in_file, am_file, g_errors_occurred,
          reports, ret, run, arg, history>>

\* what no statement of process_pre_assembly_for_file changes
env_vars == <<draft, input, in_ok, out_ok, run, arg, history>>

list_vars == <<g_current_macro, has_non_empty_lines, overall_success>>

buf_vars == <<current_macro_name, macro_body, macro_body_capacity,
              g_macro_capacity, has_errors_in_file>>

\* the values the locals and the file-scope variables of both drafts have
\* when the process makes its first call
FreshProgram ==
    /\ pc = "call"
    /\ next_line = 1
    /\ offset = 0
    /\ line_number = 0
    /\ in_macro_definition = FALSE
    /\ macros = <<>>
    /\ g_current_macro = 0
    /\ has_non_empty_lines = FALSE
    /\ overall_success = TRUE
    /\ current_macro_name = <<>>
    /\ macro_body = <<>>
    /\ macro_body_capacity = 0
    /\ g_macro_capacity = 0
    /\ has_errors_in_file = FALSE
    /\ am_file = "NULL"
    /\ g_errors_occurred = FALSE
    /\ reports = <<>>
    /\ ret = FALSE
    /\ run = 1
    /\ arg = <<>>
    /\ history = <<>>

\* the state at the call of process_pre_assembly_for_file, before its first
\* statement, for the files over the lines ids
InitOver(ids) ==
    /\ draft \in {"list", "buffer"}
    /\ \E e \in Environments :
         /\ in_ok = e.in_ok
         /\ out_ok = e.out_ok
         /\ heap = e.heap
         /\ am_exists = e.stale
         /\ am_content = IF e.stale THEN StaleContent ELSE <<>>
         /\ input \in (IF ~e.in_ok THEN {<<>>}
                       ELSE IF e.heap < NoLimit
                       THEN Files(ids, MaxLinesLowMemory)
                       ELSE Files(ids, MaxLines))
    /\ FreshProgram

Init == InitOver(CoreLines)

(***************************************************************************)
(* stdio                                                                   *)
(***************************************************************************)
\* size of the line buffers: char line_buffer[MAX_LINE_LENGTH + 2]
LineBufferSize == MAX_LINE_LENGTH + 2

\* fgets(buf, size, f) != NULL
CanRead == next_line <= Len(input)

\* the string fgets(buf, LineBufferSize, f) stores when the file position
\* is off characters into the line named l: up to LineBufferSize - 1
\* characters, through the newline
FgetsAt(l, off) ==
    SubSeq(LineText[l], off + 1, Min(Len(LineText[l]), off + LineBufferSize - 1))

\* the file positions fgets can be called at inside the line named l
RECURSIVE OffsetsFrom(_, _)
OffsetsFrom(l, off) ==
    IF off >= Len(LineText[l]) THEN {}
    ELSE {off} \cup OffsetsFrom(l, off + Len(FgetsAt(l, off)))

ReadPositions ==
    UNION {{<<l, off>> : off \in OffsetsFrom(l, 0)} : l \in DOMAIN LineText}

\* the file position of this state
Here == <<input[next_line], offset>>

\* the file position after the fgets at Here
AdvanceRead ==
    LET got == Len(FgetsAt(Here[1], Here[2]))
    IN  IF offset + got >= Len(LineText[Here[1]])
        THEN next_line' = next_line + 1 /\ offset' = 0
        ELSE next_line' = next_line /\ offset' = offset + got

\* report_error called once for each kind of kinds, all with line number ln
report_error(log, ln, kinds) ==
    log \o [i \in 1..Len(kinds) |-> <<ln, kinds[i]>>]

\* malloc: the heap after n successful allocations
Allocate(h, n) == IF h >= NoLimit THEN h ELSE h - n

(***************************************************************************)
(* src/main.c: process_pre_assembly_for_file of the list draft             *)
(***************************************************************************)
\* create_macro_list_node
create_macro_list_node(macro_name) ==
    [name |-> Strncpy(macro_name, MAX_LABEL_LENGTH), content |-> <<>>]

\* an insertion that makes the new node the whole list
add_macro_to_list_alone(table, new_macro_node) == <<new_macro_node>>

\* add_macro_to_list: the new node goes to the end of the list
add_macro_to_list(table, new_macro_node) == Append(table, new_macro_node)

\* a list insertion that puts the new line before the lines already held
add_line_before_current_macro_content(table, cur, line_text) ==
    [table EXCEPT ![cur].content = <<line_text>> \o @]

\* add_line_to_current_macro_content, allocation having succeeded
add_line_to_current_macro_content(table, cur, line_text) ==
    [table EXCEPT ![cur].content = Append(@, line_text)]

\* copy_macro_content_to_file: the strings it writes
copy_macro_content_to_file(macro_to_expand) == macro_to_expand.content

\* a test that lets every line through
no_errors_ever(flag, errs) == TRUE

\* if (!has_errors()) before each write of the list draft: flag is the
\* error flag when the iteration began, errs the errors it reported itself
no_errors_yet(flag, errs) == ~flag /\ errs = <<>>

\* What the classifiers of the list draft say about the string fgets stores
\* at each file position: line_buffer itself, the line-length test, and on
\* the trimmed copy is_macro_definition_end, is_empty_or_comment_line, the
\* strtok tokens and is_macro_definition_start (for either value of
\* g_in_macro_definition)
ListLex ==
    [p \in ReadPositions |->
       LET line_buffer == FgetsAt(p[1], p[2])
           trimmed_line == TrimInPlace(Strncpy(line_buffer, MAX_LINE_LENGTH))
       IN  [line_buffer |-> line_buffer,
            too_long |-> /\ Len(line_buffer) > MAX_LINE_LENGTH
                         /\ line_buffer[MAX_LINE_LENGTH + 1] # "\n",
            is_end   |-> list_is_macro_definition_end(trimmed_line),
            is_blank |-> is_empty_or_comment_line(trimmed_line),
            toks     |-> Strtok(Strncpy(trimmed_line, MAX_LINE_LENGTH)),
            is_start |-> [d \in BOOLEAN |->
                            list_is_macro_definition_start(trimmed_line, d)]]]
    @@ <<>>

\* One iteration of the while loop on the line fgets stored in line_buffer
\* (lex is the ListLex entry of the file position):
\* the globals and locals it leaves, the errors it reports (errs), whether
\* it printed an allocation failure (fatal), and what it writes to the .am
\* file (wr) if it gets to a write at all (writes).
ListLine(lex) ==
    LET line_buffer == lex.line_buffer
        same == [in_def  |-> in_macro_definition,
                 cur     |-> g_current_macro,
                 table   |-> macros,
                 hne     |-> has_non_empty_lines,
                 ok      |-> overall_success,
                 hp      |-> heap,
                 errs    |-> <<>>,
                 fatal   |-> FALSE,
                 writes  |-> FALSE,
                 wr      |-> <<>>]
        end1 == lex.is_end
        \* the check for an unexpected mcroend
        errs1 == IF in_macro_definition THEN <<>>
                 ELSE end1.errs \o
                      (IF end1.ret THEN <<ERROR_UNEXPECTED_MACRO_END>> ELSE <<>>)
        Clean(errs) == no_errors_yet(g_errors_occurred, errs)
    IN
    IF lex.too_long
    THEN [same EXCEPT !.errs = <<ERROR_LINE_TOO_LONG>>]
    ELSE IF ~in_macro_definition /\ lex.is_blank
    THEN [same EXCEPT !.errs = errs1,
                      !.writes = Clean(errs1),
                      !.wr = <<line_buffer>>]
    ELSE IF in_macro_definition
    THEN LET end2 == lex.is_end
         IN  IF end2.ret
             THEN [same EXCEPT !.errs = end2.errs, !.in_def = FALSE, !.cur = 0]
             ELSE IF g_current_macro = 0
             THEN [same EXCEPT !.errs = end2.errs \o <<ERROR_INTERNAL_ERROR>>,
                               !.ok = FALSE]
             ELSE IF heap < 2
             THEN [same EXCEPT !.errs = end2.errs, !.fatal = TRUE, !.ok = FALSE]
             ELSE [same EXCEPT !.errs = end2.errs,
                               !.hp = Allocate(heap, 2),
                               !.table = add_line_to_current_macro_content(
                                            macros, g_current_macro, line_buffer)]
    ELSE LET cc == list_call_check(macros, lex.toks)
             errs2 == errs1 \o cc.errs
         IN  IF cc.called # 0
             THEN [same EXCEPT !.hne = TRUE,
                               !.errs = errs2,
                               !.writes = Clean(errs2),
                               !.wr = copy_macro_content_to_file(macros[cc.called])]
             ELSE LET st == lex.is_start[in_macro_definition]
                      errs3 == errs2 \o st.errs
                  IN  IF st.ret
                      THEN IF heap < 1
                           THEN [same EXCEPT !.hne = TRUE, !.errs = errs3,
                                             !.fatal = TRUE, !.ok = FALSE]
                           ELSE [same EXCEPT
                                   !.hne = TRUE,
                                   !.errs = errs3,
                                   !.hp = Allocate(heap, 1),
                                   !.table = add_macro_to_list(macros,
                                               create_macro_list_node(st.name)),
                                   !.cur = Len(macros) + 1,
                                   !.in_def = TRUE]
                      ELSE [same EXCEPT !.hne = TRUE,
                                        !.errs = errs3,
                                        !.writes = Clean(errs3),
                                        !.wr = <<line_buffer>>]

\* a cleanup that leaves the list as it is
free_all_macros_keeping(table) == table

\* free_all_macros: every node is freed and the head is set to NULL
free_all_macros(table) == <<>>

\* entry: the globals are reset and the .as file is opened
ListCall ==
    /\ pc = "call"
    /\ draft = "list"
    /\ line_number' = 0
    /\ in_macro_definition' = FALSE
    /\ g_current_macro' = 0
    /\ macros' = free_all_macros(macros)
    /\ g_errors_occurred' = ~in_ok
    /\ IF in_ok
       THEN /\ pc' = "scan"
            /\ UNCHANGED <<reports, ret>>
       ELSE /\ pc' = "done"
            /\ reports' = report_error(reports, 0, <<ERROR_FILE_OPEN_FAILED>>)
            /\ ret' = FALSE
    /\ UNCHANGED <<env_vars, heap, am_exists, am_content, next_line, offset,
                   has_non_empty_lines, overall_success, buf_vars, am_file>>

\* one iteration of while (fgets(...) != NULL)
ListScanLine ==
    /\ pc = "scan"
    /\ CanRead
    /\ LET r == ListLine(ListLex[Here])
           ln == line_number + 1
           log == report_error(reports, ln, r.errs) \o
                  (IF r.fatal THEN << <<ln, FATAL_ALLOCATION>> >> ELSE <<>>)
           open_fails == r.writes /\ am_file = "NULL" /\ ~out_ok
       IN  /\ AdvanceRead
           /\ line_number' = ln
           /\ in_macro_definition' = r.in_def
           /\ g_current_macro' = r.cur
           /\ macros' = r.table
           /\ has_non_empty_lines' = r.hne
           /\ overall_success' = r.ok
           /\ heap' = r.hp
           /\ IF open_fails
              THEN \* fopen of the .am file failed: report and return FALSE
                   /\ reports' = report_error(log, 0, <<ERROR_FILE_OPEN_FAILED>>)
                   /\ g_errors_occurred' = TRUE
                   /\ pc' = "done"
                   /\ ret' = FALSE
                   /\ UNCHANGED <<am_file, am_exists, am_content>>
              ELSE /\ reports' = log
                   /\ g_errors_occurred' = (g_errors_occurred \/ r.errs # <<>>)
                   /\ UNCHANGED <<pc, ret>>
                   /\ IF r.writes
                      THEN /\ am_file' = "open"
                           /\ am_exists' = TRUE
                           /\ am_content' =
                                (IF am_file = "NULL" THEN <<>> ELSE am_content)
                                \o r.wr
                      ELSE UNCHANGED <<am_file, am_exists, am_content>>
    /\ UNCHANGED <<env_vars, buf_vars>>

\* a commit decision that looks at overall_success only
list_discard_ignoring_flag(errors, success) == ~success

\* the commit decision: if (has_errors() || !overall_success)
list_discard(errors, success) == errors \/ ~success

\* after the loop: the end-of-input checks, the commit decision, the cleanup
ListFinish ==
    /\ pc = "scan"
    /\ ~CanRead
    /\ LET unclosed == IF in_macro_definition
                       THEN <<ERROR_UNCLOSED_MACRO_DEFINITION>> ELSE <<>>
           log1 == report_error(reports, line_number, unclosed)
           empty == IF ~has_non_empty_lines
                    THEN <<ERROR_EMPTY_OR_COMMENT_FILE>> ELSE <<>>
           log2 == report_error(log1, 0, empty)
           errors == g_errors_occurred \/ unclosed # <<>> \/ empty # <<>>
           success == overall_success /\ unclosed = <<>> /\ empty = <<>>
           discard == list_discard(errors, success)
       IN  /\ reports' = log2
           /\ g_errors_occurred' = errors
           /\ overall_success' = ~discard
           /\ ret' = ~discard
           /\ IF discard /\ am_file # "NULL"
              THEN \* remove(output_file_name)
                   am_exists' = FALSE /\ am_content' = <<>>
              ELSE UNCHANGED <<am_exists, am_content>>
    /\ macros' = free_all_macros(macros)
    /\ g_current_macro' = 0
    /\ am_file' = "NULL"
    /\ pc' = "done"
    /\ UNCHANGED <<env_vars, heap, next_line, offset, line_number,
                   in_macro_definition, has_non_empty_lines, buf_vars>>

(***************************************************************************)
(* src/pre_assembler.c: process_pre_assembly_for_file of the buffer draft  *)
(***************************************************************************)
\* sizeof(current_macro_name)
NameBufferSize == MAX_LABEL_LENGTH + 1

\* sizeof(((Macro*)0)->name): the name field is char name[MAX_LABEL_LENGTH]
MacroNameSize == MAX_LABEL_LENGTH

\* the indices of the name field add_macro assigns: strncpy writes exactly
\* MAX_LABEL_LENGTH bytes (the name, then padding zeros), and the next
\* statement writes name[MAX_LABEL_LENGTH]
add_macro_name_writes(name) ==
    (0 .. (MAX_LABEL_LENGTH - 1)) \cup {MAX_LABEL_LENGTH}

\* the index of the first '\0' after those writes
add_macro_name_terminator(name) == Min(Len(name), MAX_LABEL_LENGTH)

\* add_macro: the table with the new entry at index g_macro_count.  The
\* name is stored by strncpy(name, MAX_LABEL_LENGTH) and a terminator.
add_macro(table, name, body, body_length) ==
    Append(table, [name |-> Strncpy(name, MAX_LABEL_LENGTH),
                   body |-> Strncpy(body, body_length)])

\* the capacity add_macro leaves g_macros with
GrownTable(count, capacity) ==
    IF count >= capacity
    THEN (IF capacity = 0 THEN 10 ELSE capacity * 2)
    ELSE capacity

\* the capacity the body buffer has after room was made for line_len bytes
GrownBody(size, line_len, capacity) ==
    IF size + line_len >= capacity
    THEN (IF capacity = 0 THEN 1024 ELSE capacity * 2)
    ELSE capacity

\* What the classifiers of the buffer draft say about the string fgets
\* stores at each file position
BufLex ==
    [p \in ReadPositions |->
       LET line == FgetsAt(p[1], p[2])
       IN  [line       |-> line,
            is_start   |-> buf_is_macro_definition_start(line, NameBufferSize),
            is_end     |-> buf_is_macro_definition_end(line),
            call_token |-> buf_call_token(line),
            colon_pos  |-> Strchr(line, ":")]]
    @@ <<>>

\* One iteration of the first loop on the line fgets stored in line (lex is
\* the BufLex entry of the file position): the
\* locals and globals it leaves, the errors it reports, and whether it
\* dereferences the NULL an unchecked allocation returned (crash).
BufLine1(lex) ==
    LET line == lex.line
        same == [in_def |-> in_macro_definition,
                 name   |-> current_macro_name,
                 body   |-> macro_body,
                 bcap   |-> macro_body_capacity,
                 table  |-> macros,
                 tcap   |-> g_macro_capacity,
                 hp     |-> heap,
                 errs   |-> <<>>,
                 crash  |-> FALSE]
        st == lex.is_start
    IN
    IF Len(line) > MAX_LINE_LENGTH + 1
    THEN [same EXCEPT !.errs = <<ERROR_LINE_TOO_LONG>>]
    ELSE IF st.ret
    THEN IF ~is_valid_macro_name(st.name)
         THEN [same EXCEPT
                 !.name = st.name,
                 !.errs = IF is_reserved_keyword(st.name)
                          THEN <<ERROR_MACRO_NAME_RESERVED_KEYWORD>>
                          ELSE <<ERROR_MACRO_NAME_INVALID_FORMAT>>]
         ELSE IF find_macro(macros, st.name) # 0
         THEN [same EXCEPT !.name = st.name,
                           !.errs = <<ERROR_LABEL_REDEFINITION>>]
         ELSE [same EXCEPT !.name = st.name, !.in_def = TRUE, !.body = <<>>]
    ELSE IF lex.is_end
    THEN IF Len(macro_body) > 0
         THEN LET grow == IF Len(macros) >= g_macro_capacity THEN 1 ELSE 0
              IN  IF heap < grow + 1
                  THEN [same EXCEPT !.crash = TRUE]
                  ELSE [same EXCEPT
                          !.table = add_macro(macros, current_macro_name,
                                              macro_body, Len(macro_body)),
                          !.tcap = GrownTable(Len(macros), g_macro_capacity),
                          !.hp = Allocate(heap, grow + 1),
                          !.in_def = FALSE,
                          !.body = <<>>,
                          !.bcap = 0]
         ELSE [same EXCEPT !.in_def = FALSE, !.body = <<>>, !.bcap = 0]
    ELSE IF in_macro_definition
    THEN LET cap == GrownBody(Len(macro_body), Len(line), macro_body_capacity)
             grow == IF cap # macro_body_capacity THEN 1 ELSE 0
         IN  IF heap < grow
             THEN [same EXCEPT !.crash = TRUE]
             ELSE [same EXCEPT !.body = macro_body \o line,
                               !.bcap = cap,
                               !.hp = Allocate(heap, grow)]
    ELSE same

\* free_macros: every body and the array are freed, g_macros is NULL
free_macros(table) == <<>>

\* entry: the error flag and the table are reset, the .as file is opened
BufCall ==
    /\ pc = "call"
    /\ draft = "buffer"
    /\ macros' = free_macros(macros)
    /\ g_macro_capacity' = 0
    /\ g_errors_occurred' = ~in_ok
    /\ IF in_ok
       THEN /\ pc' = "pass1"
            /\ UNCHANGED <<reports, ret>>
       ELSE /\ pc' = "done"
            /\ reports' = report_error(reports, 0, <<ERROR_FILE_OPEN_FAILED>>)
            /\ ret' = FALSE
    /\ UNCHANGED <<env_vars, heap, am_exists, am_content, next_line, offset,
                   line_number, in_macro_definition, list_vars,
                   current_macro_name, macro_body, macro_body_capacity,
                   has_errors_in_file, am_file>>

\* one iteration of the first while (fgets(...) != NULL)
BufPass1Line ==
    /\ pc = "pass1"
    /\ CanRead
    /\ LET r == BufLine1(BufLex[Here])
           ln == line_number + 1
       IN  /\ AdvanceRead
           /\ line_number' = ln
           /\ in_macro_definition' = r.in_def
           /\ current_macro_name' = r.name
           /\ macro_body' = r.body
           /\ macro_body_capacity' = r.bcap
           /\ macros' = r.table
           /\ g_macro_capacity' = r.tcap
           /\ heap' = r.hp
           /\ reports' = report_error(reports, ln, r.errs)
           /\ g_errors_occurred' = (g_errors_occurred \/ r.errs # <<>>)
           /\ has_errors_in_file' = (has_errors_in_file \/ r.errs # <<>>)
           /\ pc' = IF r.crash THEN "crashed" ELSE "pass1"
    /\ UNCHANGED <<env_vars, am_exists, am_content, list_vars, am_file, ret>>

\* how many times the code between the loops calls fclose on the handle the
\* first pass read from: once after the loop, and once more in the branch
\* taken when the first pass was clean and the output cannot be opened
input_file_closes(pass_had_errors, output_opens) ==
    IF ~pass_had_errors /\ ~output_opens THEN 2 ELSE 1

\* between the loops: the body buffer is freed, the input closed, the
\* output created if the first pass was clean, the input opened again.
\* When the output cannot be opened the input is closed a second time,
\* which is undefined: the run aborts there or goes on to return FALSE.
BufBetween ==
    /\ pc = "pass1"
    /\ ~CanRead
    /\ macro_body' = <<>>
    /\ IF ~has_errors_in_file /\ ~out_ok
       THEN /\ \E outcome \in IF input_file_closes(has_errors_in_file,
                                                    out_ok) > 1
                              THEN {"aborts", "returns"}
                              ELSE {"returns"} :
                 pc' = IF outcome = "aborts" THEN "crashed" ELSE "done"
            /\ reports' = report_error(reports, 0, <<ERROR_FILE_OPEN_FAILED>>)
            /\ g_errors_occurred' = TRUE
            /\ ret' = FALSE
            /\ UNCHANGED <<am_file, am_exists, am_content, next_line, offset,
                           line_number, in_macro_definition>>
       ELSE /\ IF ~has_errors_in_file
               THEN am_file' = "open" /\ am_exists' = TRUE /\ am_content' = <<>>
               ELSE UNCHANGED <<am_file, am_exists, am_content>>
            /\ next_line' = 1
            /\ offset' = 0
            /\ line_number' = 0
            /\ in_macro_definition' = FALSE
            /\ pc' = "pass2"
            /\ UNCHANGED <<reports, g_errors_occurred, ret>>
    /\ UNCHANGED <<env_vars, heap, macros, list_vars, current_macro_name,
                   macro_body_capacity, g_macro_capacity, has_errors_in_file>>

\* One iteration of the second loop: the definition flag and name buffer it
\* leaves and the strings it writes when the output file is open
BufLine2(lex) ==
    LET line == lex.line
        same == [in_def |-> in_macro_definition,
                 name   |-> current_macro_name,
                 wr     |-> <<>>]
        st == lex.is_start
        called == buf_is_macro_call(macros, lex.call_token)
        colon_pos == lex.colon_pos
    IN
    IF st.ret THEN [same EXCEPT !.in_def = TRUE, !.name = st.name]
    ELSE IF lex.is_end THEN [same EXCEPT !.in_def = FALSE]
    ELSE IF in_macro_definition THEN same
    ELSE IF am_file = "NULL" THEN same
    ELSE IF called # 0
    THEN IF colon_pos # 0
         THEN [same EXCEPT !.wr = <<SubSeq(line, 1, colon_pos),
                                    macros[called].body>>]
         ELSE [same EXCEPT !.wr = <<macros[called].body>>]
    ELSE [same EXCEPT !.wr = <<line>>]

\* one iteration of the second while (fgets(...) != NULL)
BufPass2Line ==
    /\ pc = "pass2"
    /\ CanRead
    /\ LET r == BufLine2(BufLex[Here])
       IN  /\ AdvanceRead
           /\ line_number' = line_number + 1
           /\ in_macro_definition' = r.in_def
           /\ current_macro_name' = r.name
           /\ am_content' = am_content \o r.wr
    /\ UNCHANGED <<env_vars, heap, am_exists, pc, macros, list_vars,
                   macro_body, macro_body_capacity, g_macro_capacity,
                   has_errors_in_file, am_file, g_errors_occurred, reports,
                   ret>>

\* after the second loop: the files are closed, the table freed
BufFinish ==
    /\ pc = "pass2"
    /\ ~CanRead
    /\ am_file' = "NULL"
    /\ macros' = free_macros(macros)
    /\ g_macro_capacity' = 0
    /\ ret' = (~has_errors_in_file /\ ~g_errors_occurred)
    /\ pc' = "done"
    /\ UNCHANGED <<env_vars, heap, am_exists, am_content, next_line, offset,
                   line_number, in_macro_definition, list_vars,
                   current_macro_name, macro_body, macro_body_capacity,
                   has_errors_in_file, g_errors_occurred, reports>>

(***************************************************************************)
(* Specification                                                           *)
(***************************************************************************)
Next ==
    \/ ListCall
    \/ ListScanLine
    \/ ListFinish
    \/ BufCall
    \/ BufPass1Line
    \/ BufBetween
    \/ BufPass2Line
    \/ BufFinish

Spec == Init /\ [][Next]_vars

\* the runs on files of start lines with reserved and with short names
InitNames == InitOver(NameLines)

SpecNames == InitNames /\ [][Next]_vars

\* the runs on files with lines that name a macro among other tokens
InitCalls == InitOver(CallLines)

SpecCalls == InitCalls /\ [][Next]_vars

\* the runs on files in which start lines with a legal and with a reserved
\* name meet
InitStored == InitOver(StoredNameLines)

SpecStored == InitStored /\ [][Next]_vars

\* the runs on files of start lines that name a keyword
InitKeywords == InitOver(KeywordLines)

SpecKeywords == InitKeywords /\ [][Next]_vars

(***************************************************************************)
(* Several calls by one process.  The first call processes a file B, the  *)
(* second a file A, the third the file B again; every call works on a .as *)
(* file whose .am file does not exist yet.  The file-scope variables keep *)
(* their values from call to call, the locals start from their            *)
(* declarations again.  history keeps what the first call returned,       *)
(* reported and wrote, and which file the second call processed.          *)
(***************************************************************************)
InitSequential ==
    /\ draft \in {"list", "buffer"}
    /\ in_ok = TRUE
    /\ out_ok = TRUE
    /\ heap = NoLimit
    /\ am_exists = FALSE
    /\ am_content = <<>>
    /\ input \in Files(SequentialLines, MaxLinesAfter)
    /\ FreshProgram

\* the caller calls process_pre_assembly_for_file once more
NextCall ==
    /\ pc = "done"
    /\ run < 3
    /\ run' = run + 1
    /\ IF run = 1
       THEN /\ \E f \in Files(SequentialLines, MaxLinesBefore) :
                 /\ input' = f
                 /\ history' = [input |-> input, ret |-> ret,
                                reports |-> reports, am_exists |-> am_exists,
                                am_content |-> am_content, between |-> f]
            \* the second file may be one whose .am file cannot be created
            /\ out_ok' \in BOOLEAN
       ELSE /\ input' = history.input
            /\ out_ok' = TRUE
            /\ UNCHANGED history
    \* the files of this call
    /\ am_exists' = FALSE
    /\ am_content' = <<>>
    /\ next_line' = 1
    /\ offset' = 0
    \* the locals of both drafts, as declared
    /\ has_non_empty_lines' = FALSE
    /\ overall_success' = TRUE
    /\ am_file' = "NULL"
    /\ current_macro_name' = <<>>
    /\ macro_body' = <<>>
    /\ macro_body_capacity' = 0
    /\ has_errors_in_file' = FALSE
    /\ IF draft = "buffer"
       THEN line_number' = 0 /\ in_macro_definition' = FALSE
       ELSE UNCHANGED <<line_number, in_macro_definition>>
    \* the output of this call
    /\ reports' = <<>>
    /\ ret' = FALSE
    /\ pc' = "call"
    \* file-scope variables
    /\ UNCHANGED <<macros, g_current_macro, g_macro_capacity,
                   g_errors_occurred>>
    /\ UNCHANGED <<draft, in_ok, heap, arg>>

NextSequential == Next \/ NextCall

SpecSequential == InitSequential /\ [][NextSequential]_vars

(***************************************************************************)
(* The same file given to both implementations, src/main.c first           *)
(***************************************************************************)
InitBoth ==
    /\ draft = "list"
    /\ in_ok = TRUE
    /\ out_ok = TRUE
    /\ heap = NoLimit
    /\ am_exists = FALSE
    /\ am_content = <<>>
    /\ input \in Files(PlainMacroLines, MaxLines)
    /\ FreshProgram

\* the program built from src/pre_assembler.c is started on the file the
\* program built from src/main.c has just processed, the .am file of that
\* run having been put aside
NextOther ==
    /\ pc = "done"
    /\ run = 1
    /\ run' = 2
    /\ draft' = "buffer"
    /\ history' = [ret |-> ret, reports |-> reports,
                   output |-> Flat(am_content)]
    /\ am_exists' = FALSE
    /\ am_content' = <<>>
    /\ pc' = "call"
    /\ next_line' = 1
    /\ offset' = 0
    /\ line_number' = 0
    /\ in_macro_definition' = FALSE
    /\ macros' = <<>>
    /\ g_current_macro' = 0
    /\ has_non_empty_lines' = FALSE
    /\ overall_success' = TRUE
    /\ current_macro_name' = <<>>
    /\ macro_body' = <<>>
    /\ macro_body_capacity' = 0
    /\ g_macro_capacity' = 0
    /\ has_errors_in_file' = FALSE
    /\ am_file' = "NULL"
    /\ g_errors_occurred' = FALSE
    /\ reports' = <<>>
    /\ ret' = FALSE
    /\ UNCHANGED <<input, in_ok, out_ok, heap, arg>>

NextBoth == Next \/ NextOther

SpecBoth == InitBoth /\ [][NextBoth]_vars

(***************************************************************************)
(* error_handler.c called on its own: any sequence of report_error and     *)
(* reset_error_flag calls.  history holds the error_type values reported   *)
(* since the last reset (since program start when there was none).         *)
(***************************************************************************)
\* the members of the enumeration ErrorType in order: the value of a member
\* is its index minus one
ErrorType ==
    << "ERROR_NONE", ERROR_FILE_OPEN_FAILED, ERROR_LINE_TOO_LONG,
       ERROR_EMPTY_OR_COMMENT_FILE, ERROR_MACRO_NAME_RESERVED_KEYWORD,
       ERROR_MACRO_NAME_INVALID_FORMAT, ERROR_MACRO_DEFINITION_SYNTAX,
       ERROR_NESTED_MACRO_DEFINITION, ERROR_UNEXPECTED_MACRO_END,
       ERROR_UNCLOSED_MACRO_DEFINITION, ERROR_LABEL_REDEFINITION,
       "ERROR_LABEL_RESERVED_KEYWORD", "ERROR_LABEL_INVALID_FORMAT",
       "ERROR_ENTRY_EXTERN_CONFLICT", "ERROR_UNDEFINED_LABEL",
       "ERROR_ENTRY_UNDEFINED_SYMBOL", "ERROR_UNKNOWN_OPERATION",
       "ERROR_ILLEGAL_OPERAND_COUNT", "ERROR_INVALID_ADDRESSING_METHOD",
       "ERROR_INVALID_IMMEDIATE_VALUE", "ERROR_MISSING_QUOTES_STRING",
       "ERROR_DATA_DIRECTIVE_SYNTAX", "ERROR_MATRIX_INDEX_SYNTAX",
       "ERROR_REGISTER_OUT_OF_RANGE", "ERROR_MEMORY_OVERFLOW",
       ERROR_GENERIC_SYNTAX_ERROR, ERROR_INTERNAL_ERROR >>

\* error_type >= ERROR_NONE && error_type <= ERROR_INTERNAL_ERROR
IsErrorType(error_type) == error_type >= 0 /\ error_type <= Len(ErrorType) - 1

\* the error_type values report_error is called with: the first, an inner
\* and the last member, and the values just outside the enumeration
ReportedValues == {0 - 1, 0, Len(ErrorType) - 2, Len(ErrorType) - 1, Len(ErrorType)}

\* a report_error that leaves the flag alone for an unknown error type
error_flag_after_known_report(flag, error_type) ==
    IF IsErrorType(error_type) THEN TRUE ELSE flag

\* g_errors_occurred after report_error: set in either branch
error_flag_after_report(flag, error_type) ==
    IF IsErrorType(error_type) THEN TRUE ELSE TRUE

\* the line report_error prints to stderr
error_line(line, error_type) ==
    <<line, IF IsErrorType(error_type) THEN ErrorType[error_type + 1]
            ELSE "unknown error type">>

has_errors == g_errors_occurred

InitErrors ==
    /\ draft = "list"
    /\ input = <<>>
    /\ in_ok = TRUE
    /\ out_ok = TRUE
    /\ heap = NoLimit
    /\ am_exists = FALSE
    /\ am_content = <<>>
    /\ FreshProgram

ReportError ==
    /\ Len(reports) < MaxReports
    /\ \E error_type \in ReportedValues, line \in {0, 1} :
         /\ reports' = Append(reports, error_line(line, error_type))
         /\ g_errors_occurred' =
                error_flag_after_report(g_errors_occurred, error_type)
         /\ history' = Append(history, error_type)
    /\ UNCHANGED <<draft, input, in_ok, out_ok, heap, am_exists, am_content,
                   pc, next_line, offset, line_number, in_macro_definition,
                   macros, list_vars, buf_vars, am_file, ret, run, arg>>

ResetErrorFlag ==
    /\ g_errors_occurred' = FALSE
    /\ history' = <<>>
    /\ UNCHANGED <<draft, input, in_ok, out_ok, heap, am_exists, am_content,
                   pc, next_line, offset, line_number, in_macro_definition,
                   macros, list_vars, buf_vars, am_file, reports, ret, run,
                   arg>>

NextErrors == ReportError \/ ResetErrorFlag

SpecErrors == InitErrors /\ [][NextErrors]_vars

(***************************************************************************)
(* utils.c called on its own: is_legal_label on one string.  arg is the    *)
(* string, history the value returned once the call has been made.         *)
(***************************************************************************)
\* the characters the short arguments are made of: letters, a digit, the
\* underscore and a character that is neither
LabelAlphabet == {"a", "Z", "r", "7", "_", "."}

\* the strings is_legal_label is called with: every short string over
\* LabelAlphabet, every reserved word, and strings around the length limit
LabelArguments ==
    UNION {[1..n -> LabelAlphabet] : n \in 0..MaxShortLabel}
    \cup Range(opcode_names) \cup Range(directive_names)
    \cup Range(register_names)
    \cup {Filler(n) : n \in (MAX_LABEL_LENGTH - 1)..(MAX_LABEL_LENGTH + 1)}
    \cup {Filler(n) \o <<"_", "7">> :
             n \in (MAX_LABEL_LENGTH - 3)..(MAX_LABEL_LENGTH - 1)}
    \cup {<<"7">> \o Filler(MAX_LABEL_LENGTH - 1),
          Filler(MAX_LABEL_LENGTH - 1) \o <<".">>}

\* the state of a process that is about to call a library function with
\* the argument a
InitLibrary(a) ==
    /\ draft = "list"
    /\ input = <<>>
    /\ in_ok = TRUE
    /\ out_ok = TRUE
    /\ heap = NoLimit
    /\ am_exists = FALSE
    /\ am_content = <<>>
    /\ pc = "call"
    /\ next_line = 1
    /\ offset = 0
    /\ line_number = 0
    /\ in_macro_definition = FALSE
    /\ macros = <<>>
    /\ g_current_macro = 0
    /\ has_non_empty_lines = FALSE
    /\ overall_success = TRUE
    /\ current_macro_name = <<>>
    /\ macro_body = <<>>
    /\ macro_body_capacity = 0
    /\ g_macro_capacity = 0
    /\ has_errors_in_file = FALSE
    /\ am_file = "NULL"
    /\ g_errors_occurred = FALSE
    /\ reports = <<>>
    /\ ret = FALSE
    /\ run = 1
    /\ arg = a
    /\ history = <<>>

InitLabels == \E a \in LabelArguments : InitLibrary(a)

\* the call is_legal_label(arg)
CallIsLegalLabel ==
    /\ pc = "call"
    /\ history' = <<is_legal_label(arg)>>
    /\ pc' = "done"
    /\ UNCHANGED <<draft, input, in_ok, out_ok, heap, am_exists, am_content,
                   next_line, offset, line_number, in_macro_definition,
                   macros, list_vars, buf_vars, am_file, g_errors_occurred,
                   reports, ret, run, arg>>

NextLabels == CallIsLegalLabel

SpecLabels == InitLabels /\ [][NextLabels]_vars

(***************************************************************************)
(* utils.c called on its own: convert_decimal_to_unique_base4 on one int   *)
(***************************************************************************)
\* the extremes of a 32-bit int
INT_MAX == (2^30 - 1) + 2^30
INT_MIN == (0 - INT_MAX) - 1

\* the int values it is called with: the small ones of either sign, the
\* extremes of a 32-bit int and their neighbours
IntArguments ==
    ((0 - MaxSmallValue)..MaxSmallValue)
    \cup {INT_MIN, INT_MIN + 1, INT_MAX - 1, INT_MAX, 2^16, 0 - 2^16, 2^20 + 5}

InitBase4 == \E a \in IntArguments : InitLibrary(a)

\* the call convert_decimal_to_unique_base4(arg, base4_buffer)
CallConvertBase4 ==
    /\ pc = "call"
    /\ history' = convert_decimal_to_unique_base4(arg)
    /\ pc' = "done"
    /\ UNCHANGED <<draft, input, in_ok, out_ok, heap, am_exists, am_content,
                   next_line, offset, line_number, in_macro_definition,
                   macros, list_vars, buf_vars, am_file, g_errors_occurred,
                   reports, ret, run, arg>>

NextBase4 == CallConvertBase4

SpecBase4 == InitBase4 /\ [][NextBase4]_vars

\* the runs on files with lines longer than MAX_LINE_LENGTH
InitLong == InitOver(LongLines)

SpecLong == InitLong /\ [][Next]_vars

(***************************************************************************)
(* Vocabulary of the properties                                            *)
(***************************************************************************)
\* s is an initial segment of t
IsPrefix(s, t) == Len(s) <= Len(t) /\ SubSeq(t, 1, Len(s)) = s

\* the text of a file, character by character
FileText(f) == Flat([i \in 1..Len(f) |-> LineText[f[i]]])

\* what this run wrote to the .am file: nothing when the file is absent or
\* is the untouched file of an earlier run
OutputText ==
    IF am_exists /\ am_content # StaleContent THEN Flat(am_content) ELSE <<>>

\* this run left an .am file of its own
OutputLeft == am_exists /\ am_content # StaleContent

\* a run whose files can be opened and whose allocations all succeed
OrdinaryRun == in_ok /\ out_ok /\ heap = NoLimit

\* the kinds reported so far, and the reports of one kind
Reported(kind) == {i \in 1..Len(reports) : reports[i][2] = kind}

\* the scanner is about to read a whole line in its (first) scan of the input
AtLine == pc \in {"scan", "pass1"} /\ CanRead /\ offset = 0

\* the line it is about to read
CurLine == input[next_line]

\* 'mcro NAME' lines and the NAME they carry
StartLines == {"StartFOO", "StartBAR"}

StartName(l) == IF l = "StartFOO" THEN FOO ELSE BAR

\* lines that are ordinary text or comments whatever the macro table holds
PlainLines == {"PlainAdd", "CommentLine"}

\* the names in the macro table
TableNames == {macros[i].name : i \in 1..Len(macros)}

\* the name and the captured body of the definition that is open
ActiveName ==
    IF draft = "list"
    THEN (IF g_current_macro = 0 THEN <<>> ELSE macros[g_current_macro].name)
    ELSE current_macro_name

ActiveBody ==
    IF draft = "list"
    THEN (IF g_current_macro = 0 THEN <<>>
          ELSE Flat(macros[g_current_macro].content))
    ELSE macro_body

\* the body stored for the first table entry called name
StoredBody(name) ==
    LET e == macros[FindFrom(macros, name, 1)]
    IN  IF draft = "list" THEN Flat(e.content) ELSE e.body

(***************************************************************************)
(* The expansion section 4.2 of the design prescribes, for files over the  *)
(* lines whose classification is beyond doubt: ok says that the scan meets *)
(* no misplaced start or end line and no redefinition and ends outside a   *)
(* definition, out is the expanded text.                                   *)
(***************************************************************************)
RefLines ==
    {"StartFOO", "StartBAR", "EndLine", "CallFOO", "PlainAdd", "CommentLine",
     "McroxLine"}

\* tab maps a defined name to its body; cur is the name being defined
RECURSIVE RefScan(_, _, _, _, _, _)
RefScan(f, tab, cur, body, out, ok) ==
    IF f = <<>> THEN [ok |-> ok /\ cur = <<>>, out |-> out]
    ELSE
      LET l == Head(f)
          rest == Tail(f)
          text == LineText[l]
      IN  IF cur # <<>>
          THEN IF l = "EndLine"
               THEN RefScan(rest, [n \in DOMAIN tab \cup {cur} |->
                                     IF n = cur THEN body ELSE tab[n]],
                            <<>>, <<>>, out, ok)
               ELSE IF l \in StartLines
               THEN RefScan(rest, tab, cur, body, out, FALSE)
               ELSE RefScan(rest, tab, cur, body \o text, out, ok)
          ELSE IF l = "EndLine"
               THEN RefScan(rest, tab, cur, body, out, FALSE)
          ELSE IF l \in StartLines
               THEN IF StartName(l) \in DOMAIN tab
                    THEN RefScan(rest, tab, cur, body, out, FALSE)
                    ELSE RefScan(rest, tab, StartName(l), <<>>, out, ok)
          ELSE IF l = "CallFOO" /\ FOO \in DOMAIN tab
               THEN RefScan(rest, tab, cur, body, out \o tab[FOO], ok)
          ELSE RefScan(rest, tab, cur, body, out \o text, ok)

RefRun(f) == RefScan(f, <<>>, <<>>, <<>>, <<>>, TRUE)

RefInScope(f) == \A i \in 1..Len(f) : f[i] \in RefLines

(***************************************************************************)
(* C1                                                                      *)
(***************************************************************************)
\* a file that defines FOO once (plain body lines between 'mcro FOO' and
\* 'mcroend'), has only plain lines before the definition and only plain
\* lines and FOO calls after it
OneMacroFile(f) ==
    \E i, j \in 1..Len(f) :
        /\ i < j
        /\ f[i] = "StartFOO"
        /\ f[j] = "EndLine"
        /\ \A k \in 1..Len(f) :
             \/ k \in {i, j}
             \/ f[k] \in PlainLines
             \/ k > j /\ f[k] = "CallFOO"

\* C1: when an ordinary run on a file that defines one macro and calls it
\* N >= 0 times has reported no error, the text it wrote is the file's text
\* with the definition removed and every call line replaced by the body
C1_ExpansionOfCalls ==
    (pc = "done" /\ OrdinaryRun /\ OneMacroFile(input) /\ reports = <<>>)
        => OutputText = RefRun(input).out

(***************************************************************************)
(* C2                                                                      *)
(***************************************************************************)
\* a file without any 'mcro' or 'mcroend' line and with a substantive line
NoDefinitionFile(f) ==
    /\ \A i \in 1..Len(f) :
         f[i] \in {"PlainAdd", "CallFOO", "CommentLine", "McroxLine"}
    /\ \E i \in 1..Len(f) : f[i] # "CommentLine"

\* C2: identity law - on a file without macro definitions an ordinary run
\* returns TRUE and the .am file is the input
C2_IdentityLaw ==
    (pc = "done" /\ OrdinaryRun /\ NoDefinitionFile(input))
        => (ret /\ am_exists /\ Flat(am_content) = FileText(input))

(***************************************************************************)
(* C3                                                                      *)
(***************************************************************************)
\* C3: when a run that reported an error has finished, there is no .am
\* file, whether or not there was one before the call
C3_NoOutputAfterError ==
    (pc = "done" /\ reports # <<>>) => ~am_exists

(***************************************************************************)
(* C4                                                                      *)
(***************************************************************************)
\* C4: when the call of an ordinary run returns TRUE the .am file exists,
\* is not the file of an earlier run, and holds the complete expansion of
\* the input
C4_TrueMeansOutputPersisted ==
    (pc = "done" /\ OrdinaryRun /\ ret)
        => /\ am_exists
           /\ am_content # StaleContent
           /\ (RefInScope(input) /\ RefRun(input).ok)
                  => Flat(am_content) = RefRun(input).out

UnclosedFile(f) ==
    \E i \in 1..Len(f) :
        /\ f[i] \in StartLines
        /\ \A k \in 1..(i - 1) : f[k] \in PlainLines
        /\ \A k \in (i + 1)..Len(f) : f[k] \in PlainLines \cup {"CallFOO"}

\* C6: end of input inside a definition - an ordinary run reports
\* UnclosedMacroDefinition with the number of the last line, returns FALSE
\* and leaves no output of its own
C6_UnclosedDefinitionFails ==
    (pc = "done" /\ OrdinaryRun /\ UnclosedFile(input))
        => /\ \E i \in Reported(ERROR_UNCLOSED_MACRO_DEFINITION) :
                reports[i][1] = Len(input)
           /\ ~ret
           /\ ~OutputLeft

(***************************************************************************)
(* C7                                                                      *)
(***************************************************************************)
\* the scanner, outside any definition, reads 'mcro NAME' for a NAME that
\* the macro table already holds
ReadsRedefinition ==
    /\ AtLine
    /\ ~in_macro_definition
    /\ CurLine \in StartLines
    /\ StartName(CurLine) \in TableNames

\* C7: the step that reads a second 'mcro NAME' reports exactly one
\* redefinition error for that line, opens no definition and leaves the
\* table, hence the first body, as it was
C7_RedefinitionRejected ==
    [][ReadsRedefinition =>
          /\ reports' = Append(reports,
                               <<line_number + 1, ERROR_LABEL_REDEFINITION>>)
          /\ ~in_macro_definition'
          /\ macros' = macros]_vars

(***************************************************************************)
(* C8                                                                      *)
(***************************************************************************)
\* C8: no two entries of the macro table carry the same name
C8_UniqueNames ==
    \A i, j \in 1..Len(macros) : macros[i].name = macros[j].name => i = j

(***************************************************************************)
(* C9 and C10                                                              *)
(***************************************************************************)
\* the scanner reads a 'mcro X' line while a definition is open
ReadsNestedStart ==
    /\ AtLine
    /\ in_macro_definition
    /\ CurLine \in StartLines

\* C9: that step reports NestedMacroDefinition for the line, does not add
\* the line to the open body and leaves the definition open
C9_NestedStartReportedAndDropped ==
    [][ReadsNestedStart =>
          /\ reports' = Append(reports,
                               <<line_number + 1, ERROR_NESTED_MACRO_DEFINITION>>)
          /\ ActiveBody' = ActiveBody
          /\ in_macro_definition']_vars

\* C10: that step keeps the open definition - its name stays and the body
\* lines captured so far are kept
C10_NestedStartKeepsDefinition ==
    [][ReadsNestedStart =>
          /\ in_macro_definition'
          /\ ActiveName' = ActiveName
          /\ IsPrefix(ActiveBody, ActiveBody')]_vars

(***************************************************************************)
(* C11                                                                     *)
(***************************************************************************)
\* start lines whose name is a reserved keyword
ReservedStartLines == {"StartMov", "StartR3", "StartData"}

\* the scanner, outside any definition, reads 'mcro NAME' for a reserved NAME
ReadsReservedStart ==
    /\ AtLine
    /\ ~in_macro_definition
    /\ CurLine \in ReservedStartLines

\* C11: the step that reads a start line with a reserved name reports
\* MacroNameReserved (and nothing else) for that line, adds nothing to the
\* macro table and stays outside any definition
C11_ReservedNameReported ==
    [][ReadsReservedStart =>
          /\ reports' = Append(reports,
                 <<line_number + 1, ERROR_MACRO_NAME_RESERVED_KEYWORD>>)
          /\ macros' = macros
          /\ ~in_macro_definition']_vars

(***************************************************************************)
(* C12                                                                     *)
(***************************************************************************)
\* the input lines whose content is longer than MAX_LINE_LENGTH
TooLongLines ==
    {l \in DOMAIN LineText : Len(LineText[l]) - 1 > MAX_LINE_LENGTH}

\* a loop iteration reads (the beginning or a later part of) a too-long line
ReadsLongLine ==
    /\ pc \in {"scan", "pass1", "pass2"}
    /\ CanRead
    /\ CurLine \in TooLongLines

\* C12: a too-long line gets one LineTooLong report, when the scan first
\* reaches it, and none of its parts is classified, captured or copied: the
\* steps that read it leave the macro table, the open definition, the
\* content flag and the output as they were (which number the lines after
\* it are reported under is the subject of C28)
C12_LongLineReportedAndExcluded ==
    [][ReadsLongLine =>
          /\ reports' = IF offset = 0 /\ pc # "pass2"
                        THEN Append(reports,
                                    <<line_number + 1, ERROR_LINE_TOO_LONG>>)
                        ELSE reports
          /\ macros' = macros
          /\ in_macro_definition' = in_macro_definition
          /\ ActiveBody' = ActiveBody
          /\ has_non_empty_lines' = has_non_empty_lines
          /\ am_content' = am_content]_vars

(***************************************************************************)
(* C13                                                                     *)
(***************************************************************************)
\* the start lines and the name each carries
StartNameOf ==
    [ StartFOO  |-> FOO,
      StartBAR  |-> BAR,
      StartA    |-> <<"a">>,
      StartM    |-> <<"m">>,
      StartMcro    |-> mcro,
      StartMcroend |-> mcroend,
      StartMov  |-> <<"m","o","v">>,
      StartR3   |-> <<"r","3">>,
      StartData |-> <<".","d","a","t","a">> ]

\* the lines the scan of section 4.2 classifies beyond doubt
DefectScope == RefLines \cup DOMAIN StartNameOf

\* The indices (counted from i) of the defective lines of f according to
\* the scanner of section 4.2: outside a definition a 'mcroend', a start
\* line with a reserved name and a start line for a name already defined;
\* inside a definition every start line.  tab is the set of defined names,
\* cur the name being defined (<<>> outside a definition).
RECURSIVE RefDefects(_, _, _, _)
RefDefects(f, tab, cur, i) ==
    IF f = <<>> THEN {}
    ELSE
      LET l == Head(f)
          rest == Tail(f)
          is_start == l \in DOMAIN StartNameOf
      IN  IF cur # <<>>
          THEN IF l = "EndLine"
               THEN RefDefects(rest, tab \cup {cur}, <<>>, i + 1)
               ELSE IF is_start
               THEN {i} \cup RefDefects(rest, tab, cur, i + 1)
               ELSE RefDefects(rest, tab, cur, i + 1)
          ELSE IF l = "EndLine"
               THEN {i} \cup RefDefects(rest, tab, cur, i + 1)
          ELSE IF is_start
               THEN IF l \in ReservedStartLines \/ StartNameOf[l] \in tab
                    THEN {i} \cup RefDefects(rest, tab, cur, i + 1)
                    ELSE RefDefects(rest, tab, StartNameOf[l], i + 1)
          ELSE RefDefects(rest, tab, cur, i + 1)

DefectiveLines(f) == RefDefects(f, {}, <<>>, 1)

\* C13: when an ordinary run has finished, every defective line of the
\* input has an error report of its own, however many lines before it
\* were reported
C13_EveryDefectReported ==
    (pc = "done" /\ OrdinaryRun /\ \A i \in 1..Len(input) :
                                     input[i] \in DefectScope)
        => \A i \in DefectiveLines(input) :
              \E k \in 1..Len(reports) : reports[k][1] = i

(***************************************************************************)
(* C14                                                                     *)
(***************************************************************************)
\* Whether the scanner of section 4.2 classifies some line of f as Other,
\* MacroCall or macro-body content: outside a definition every line that
\* is not blank, a comment, a start line or an end line; inside a
\* definition every line that is neither a start line nor the end line.
RECURSIVE RefHasContent(_, _, _)
RefHasContent(f, tab, cur) ==
    IF f = <<>> THEN FALSE
    ELSE
      LET l == Head(f)
          rest == Tail(f)
          is_start == l \in DOMAIN StartNameOf
      IN  IF cur # <<>>
          THEN IF l = "EndLine"
               THEN RefHasContent(rest, tab \cup {cur}, <<>>)
               ELSE IF is_start THEN RefHasContent(rest, tab, cur)
               ELSE TRUE
          ELSE IF l \in {"EndLine", "CommentLine"}
               THEN RefHasContent(rest, tab, cur)
          ELSE IF is_start
               THEN IF l \in ReservedStartLines \/ StartNameOf[l] \in tab
                    THEN RefHasContent(rest, tab, cur)
                    ELSE RefHasContent(rest, tab, StartNameOf[l])
          ELSE TRUE

HasContent(f) == RefHasContent(f, {}, <<>>)

\* C14: an ordinary run reports EmptyOrCommentOnlyFile (and fails) exactly
\* when no line of the input is Other, MacroCall or macro-body content
C14_EmptyFileReported ==
    (pc = "done" /\ OrdinaryRun /\ \A i \in 1..Len(input) :
                                     input[i] \in DefectScope)
        => /\ Reported(ERROR_EMPTY_OR_COMMENT_FILE) # {} <=> ~HasContent(input)
           /\ ~HasContent(input) => ~ret

(***************************************************************************)
(* C15                                                                     *)
(***************************************************************************)
\* C15: the call on B that follows a call on A returns, reports and writes
\* what the call on B alone did
C15_SequentialRunsIndependent ==
    (run = 3 /\ pc = "done")
        => /\ ret = history.ret
           /\ reports = history.reports
           /\ am_exists = history.am_exists
           /\ am_content = history.am_content

\* a call on a file that only names FOO has returned TRUE after a call on a
\* file that defined FOO
C15_Witness ==
    /\ run = 3
    /\ pc = "done"
    /\ input = <<"CallFOO">>
    /\ history.between \in {<<"StartFOO", "PlainAdd", "EndLine">>,
                            <<"StartFOO", "PlainAdd", "EndWithComment">>}
    /\ ret
    /\ Flat(am_content) = LineText["CallFOO"]

(***************************************************************************)
(* C16                                                                     *)
(***************************************************************************)
\* C16: has_errors() is TRUE exactly when report_error was called, with
\* whatever error_type, since the last reset_error_flag
C16_FlagIffReportedSinceReset ==
    has_errors <=> history # <<>>

\* after a reset, two reports were made, one of them with a value outside
\* the enumeration
C16_Witness ==
    /\ has_errors
    /\ Len(history) = 2
    /\ Len(reports) > Len(history)
    /\ \E i \in 1..Len(history) : ~IsErrorType(history[i])

(***************************************************************************)
(* C17                                                                     *)
(***************************************************************************)
\* the rule for macro names and labels
LegalNameRule(s) ==
    /\ Len(s) >= 1
    /\ Len(s) <= MAX_LABEL_LENGTH
    /\ s[1] \in Lower \cup Upper
    /\ \A i \in 2..Len(s) : s[i] \in Lower \cup Upper \cup Digit \cup {"_"}
    /\ \A i \in 1..Len(opcode_names) : s # opcode_names[i]
    /\ \A i \in 1..Len(directive_names) : s # directive_names[i]
    /\ \A i \in 1..Len(register_names) : s # register_names[i]

\* C17: is_legal_label returns TRUE exactly for the strings the rule allows
C17_LegalLabelRule ==
    (pc = "done" /\ history # <<>>) => (history[1] <=> LegalNameRule(arg))

\* a name of exactly MAX_LABEL_LENGTH characters was accepted
C17_Witness ==
    /\ pc = "done"
    /\ history = <<TRUE>>
    /\ Len(arg) = MAX_LABEL_LENGTH

(***************************************************************************)
(* C18                                                                     *)
(***************************************************************************)
\* the digit a character of the unique base 4 stands for
Base4Digit(c) == IF c = "a" THEN 0 ELSE IF c = "b" THEN 1
                 ELSE IF c = "c" THEN 2 ELSE 3

\* the number a string of base-4 characters spells, most significant first
RECURSIVE Base4Value(_)
Base4Value(s) ==
    IF s = <<>> THEN 0
    ELSE 4 * Base4Value(SubSeq(s, 1, Len(s) - 1)) + Base4Digit(s[Len(s)])

\* C18: the buffer holds five characters of a..d that spell, in base 4, the
\* value modulo 1024 (the 10-bit two's complement of the argument)
C18_Base4OfTenBits ==
    pc = "done"
        => /\ Len(history) = 5
           /\ \A i \in 1..5 : history[i] \in {"a", "b", "c", "d"}
           /\ Base4Value(history) = arg % 1024

\* a negative value was converted: its string starts with the sign bit set
C18_Witness ==
    /\ pc = "done"
    /\ arg < 0
    /\ arg > 0 - 512
    /\ history[1] \in {"c", "d"}

(***************************************************************************)
(* C19                                                                     *)
(***************************************************************************)
\* the first whitespace-delimited token of a string
FirstToken(s) ==
    LET Blank(c) == c \in {" ", "\t", "\n"}
        start == IF \E i \in 1..Len(s) : ~Blank(s[i])
                 THEN CHOOSE i \in 1..Len(s) :
                          /\ ~Blank(s[i])
                          /\ \A j \in 1..(i - 1) : Blank(s[j])
                 ELSE Len(s) + 1
        stop == IF \E i \in start..Len(s) : Blank(s[i])
                THEN CHOOSE i \in start..Len(s) :
                         /\ Blank(s[i])
                         /\ \A j \in start..(i - 1) : ~Blank(s[j])
                ELSE Len(s) + 1
    IN  SubSeq(s, start, stop - 1)

\* what is_macro_definition_start and is_macro_definition_end return for
\* the line the scanner is about to read
StartVerdict ==
    IF draft = "list"
    THEN ListLex[Here].is_start[in_macro_definition].ret
    ELSE BufLex[Here].is_start.ret

EndVerdict ==
    IF draft = "list" THEN ListLex[Here].is_end.ret ELSE BufLex[Here].is_end

\* C19: is_macro_definition_start returns TRUE only for a line whose first
\* token is exactly 'mcro'; no line is both a start and an end; and the step
\* that reads a line consisting of 'mcroend' outside a definition finds it to
\* be an end and opens no definition
C19_StartOnlyOnMcroToken ==
    [][AtLine =>
          /\ StartVerdict => FirstToken(LineText[CurLine]) = mcro
          /\ ~(StartVerdict /\ EndVerdict)
          /\ CurLine = "EndLine" =>
                /\ EndVerdict
                /\ ~in_macro_definition => ~in_macro_definition']_vars

(***************************************************************************)
(* C20                                                                     *)
(***************************************************************************)
\* start lines whose name is legal and not reserved
LegalStartLines == {"StartA", "StartM"}

\* the scanner, outside any definition, reads 'mcro NAME' for a legal NAME
\* that is not in the table
ReadsFreshStart ==
    /\ AtLine
    /\ OrdinaryRun
    /\ ~in_macro_definition
    /\ CurLine \in LegalStartLines
    /\ StartNameOf[CurLine] \notin TableNames

\* C20: that step opens a definition of NAME, reports nothing and writes
\* nothing to the output
C20_LegalStartOpensDefinition ==
    [][ReadsFreshStart =>
          /\ reports' = reports
          /\ in_macro_definition'
          /\ ActiveName' = StartNameOf[CurLine]
          /\ am_content' = am_content]_vars

(***************************************************************************)
(* C21                                                                     *)
(***************************************************************************)
\* start lines whose name is the start or the end keyword
KeywordStartLines == {"StartMcro", "StartMcroend"}

\* the scanner, outside any definition, reads 'mcro mcro' or 'mcro mcroend'
ReadsKeywordStart ==
    /\ AtLine
    /\ ~in_macro_definition
    /\ CurLine \in KeywordStartLines

\* C21: the two keywords are rejected as names by is_legal_label and
\* is_reserved_keyword, and the step that reads a start line naming one of
\* them opens no definition and leaves the table without an entry of that
\* name
C21_KeywordsAreReserved ==
    [][ReadsKeywordStart =>
          /\ ~is_legal_label(StartNameOf[CurLine])
          /\ is_reserved_keyword(StartNameOf[CurLine])
          /\ ~in_macro_definition'
          /\ StartNameOf[CurLine] \notin TableNames']_vars

(***************************************************************************)
(* C22                                                                     *)
(***************************************************************************)
\* the scanner, in an ordinary run, reads the line 'mcroend' while no
\* definition is open
ReadsEndOutside ==
    /\ AtLine
    /\ OrdinaryRun
    /\ ~in_macro_definition
    /\ CurLine = "EndLine"

\* C22: that step reports UnexpectedMacroEnd for the line, writes nothing
\* to the output, stays outside any definition and leaves the table as it
\* was
C22_UnexpectedEndReported ==
    [][ReadsEndOutside =>
          /\ reports' = Append(reports,
                 <<line_number + 1, ERROR_UNEXPECTED_MACRO_END>>)
          /\ am_content' = am_content
          /\ ~in_macro_definition'
          /\ macros' = macros]_vars

(***************************************************************************)
(* C23                                                                     *)
(***************************************************************************)
\* a loop iteration, in an ordinary run and outside any definition, reads
\* the whole line l
ReadsOutside(l) ==
    /\ pc \in {"scan", "pass1", "pass2"}
    /\ CanRead
    /\ offset = 0
    /\ OrdinaryRun
    /\ ~in_macro_definition
    /\ CurLine = l

\* FOO is in the table and no line from this one on starts a definition of
\* it: its definition was completed on earlier lines
FooDefinedEarlier ==
    /\ FOO \in TableNames
    /\ \A k \in next_line..Len(input) : input[k] # "StartFOO"

\* C23: a line 'FOO r1' read when FOO is defined is reported as an error
\* of that line by the scan that classifies it, and no iteration that reads
\* it writes anything (so FOO's body is not written for it)
C23_CallWithExtraTokensRejected ==
    [][(ReadsOutside("CallFOOExtra") /\ FooDefinedEarlier) =>
          /\ pc # "pass2" =>
                /\ Len(reports') = Len(reports) + 1
                /\ reports'[Len(reports')][1] = line_number + 1
          /\ am_content' = am_content]_vars

(***************************************************************************)
(* C24                                                                     *)
(***************************************************************************)
\* the iteration that reads the line is one that writes output: the single
\* scan of the list draft while nothing has been reported, the second pass
\* of the buffer draft with the output file open
WritingScan ==
    IF draft = "list" THEN pc = "scan" /\ reports = <<>>
    ELSE pc = "pass2" /\ am_file # "NULL"

\* C24: the iteration that reads 'L1: FOO' when FOO is defined appends to
\* the output the label, the colon and FOO's body, not the line itself
C24_LabelledCallExpanded ==
    [][(ReadsOutside("LabelCallFOO") /\ FooDefinedEarlier /\ WritingScan) =>
          OutputText' = OutputText \o <<"L", "1", ":">> \o StoredBody(FOO)]_vars

(***************************************************************************)
(* C25                                                                     *)
(***************************************************************************)
\* lines that are neither start nor end lines: ordinary text, a comment,
\* the name FOO
BodyLines == {"PlainAdd", "CommentLine", "CallFOO"}

\* a loop iteration, in an ordinary run, reads such a line while a
\* definition is open
ReadsBodyLine ==
    /\ pc \in {"scan", "pass1", "pass2"}
    /\ CanRead
    /\ offset = 0
    /\ OrdinaryRun
    /\ in_macro_definition
    /\ CurLine \in BodyLines

FooDefinedOnlyLater ==
    /\ \A k \in 1..next_line : input[k] # "StartFOO"
    /\ \E k \in (next_line + 1)..Len(input) : input[k] = "StartFOO"

\* C26: the writing iteration that reads a line 'FOO' standing before the
\* definition of FOO copies the line as it is
C26_CallBeforeDefinitionCopied ==
    [][(ReadsOutside("CallFOO") /\ WritingScan /\ FooDefinedOnlyLater) =>
          OutputText' = OutputText \o LineText["CallFOO"]]_vars

(***************************************************************************)
(* C27                                                                     *)
(***************************************************************************)
\* the writing iteration reads the line 'FOO' as the third line of an input
\* that begins with 'mcro FOO' and an end line, the scanner having left the
\* definition on that end line without any report
ReadsCallOfEmptyMacro ==
    /\ ReadsOutside("CallFOO")
    /\ WritingScan
    /\ reports = <<>>
    /\ next_line = 3
    /\ input[1] = "StartFOO"
    /\ input[2] \in {"EndLine", "EndWithComment"}

\* C27: that iteration takes the line as a call of the empty macro FOO: it
\* adds nothing to the output
C27_EmptyMacroCallExpandsToNothing ==
    [][ReadsCallOfEmptyMacro => OutputText' = OutputText]_vars

(***************************************************************************)
(* C28                                                                     *)
(***************************************************************************)
\* a loop iteration, in an ordinary run, reads (a part of) an input line
ReadsLine ==
    /\ pc \in {"scan", "pass1", "pass2"}
    /\ CanRead
    /\ OrdinaryRun

\* C28: every report an iteration makes carries the index, counted from 1
\* in the input, of the line the iteration read
C28_ReportsCarryLineIndex ==
    [][ReadsLine =>
          \A k \in (Len(reports) + 1)..Len(reports') :
              reports'[k][1] = next_line]_vars

(***************************************************************************)
(* C29                                                                     *)
(***************************************************************************)
\* C29: when process_pre_assembly_for_file has returned, whatever the
\* return path, the macro table is empty and no body under construction is
\* held
C29_TableReleasedOnReturn ==
    pc = "done" => (macros = <<>> /\ macro_body = <<>>)

(***************************************************************************)
(* C30                                                                     *)
(***************************************************************************)
\* an allocation has failed, or the output file could not be opened
ResourceFailure ==
    \E k \in 1..Len(reports) :
        \/ reports[k][2] = FATAL_ALLOCATION
        \/ reports[k][2] = ERROR_FILE_OPEN_FAILED /\ in_ok

\* C30: once a resource failure has happened no step reads another line,
\* and the call ends by returning FALSE: a failed allocation does not crash
\* the program (with the output file openable nothing else can), and the
\* value returned after a failure is not TRUE
C30_ResourceFailureStopsPass ==
    [][/\ ResourceFailure => (next_line' = next_line /\ offset' = offset)
       /\ out_ok => pc' # "crashed"
       /\ (ResourceFailure' /\ pc' = "done") => ~ret']_vars

(***************************************************************************)
(* C31                                                                     *)
(***************************************************************************)
\* C31: no run reports InternalError, and while the list implementation
\* scans, its in-definition flag is TRUE exactly when a current macro is set
C31_NoInternalError ==
    /\ Reported(ERROR_INTERNAL_ERROR) = {}
    /\ (draft = "list" /\ pc = "scan")
          => (in_macro_definition <=> g_current_macro # 0)

\* the list implementation, in a run where allocations fail, has found
\* the name on a start line, opened the definition and then lost a body
\* line to a failed allocation: the definition is still open with its
\* current macro set
C31_Witness ==
    /\ draft = "list"
    /\ pc = "scan"
    /\ in_macro_definition
    /\ g_current_macro # 0
    /\ ActiveName = FOO
    /\ Reported(FATAL_ALLOCATION) # {}

(***************************************************************************)
(* C32                                                                     *)
(***************************************************************************)
\* a loop iteration of the scan that builds the table reads from the input
FirstScanRead == pc \in {"scan", "pass1"} /\ CanRead

\* the table after the step is the table before it with one entry added
\* at the end
OneEntryAdded ==
    /\ Len(macros') = Len(macros) + 1
    /\ SubSeq(macros', 1, Len(macros)) = macros

\* the table after the step differs from the table before it only in the
\* lines held for the current macro, which gained the line read
OneLineAdded ==
    /\ g_current_macro \in 1..Len(macros)
    /\ macros' = [macros EXCEPT ![g_current_macro].content =
                                   Append(@, ListLex[Here].line_buffer)]

\* C32: a step changes the macro table only as the start action (a line
\* is_macro_definition_start accepts, outside a definition: one entry
\* added), the body-append action (inside a definition, a line that is no
\* end: one line added to the current macro), the end action of
\* src/pre_assembler.c (a line is_macro_definition_end accepts: the closed
\* macro added) or the release of the whole table; every other step, and so
\* every classification that leads to none of these actions, leaves the
\* table as it was
C32_ClassificationKeepsTable ==
    [][macros' # macros =>
          \/ macros' = <<>>
          \/ /\ draft = "list"
             /\ FirstScanRead
             /\ ~in_macro_definition
             /\ StartVerdict
             /\ OneEntryAdded
          \/ /\ draft = "list"
             /\ FirstScanRead
             /\ in_macro_definition
             /\ ~EndVerdict
             /\ OneLineAdded
          \/ /\ draft = "buffer"
             /\ FirstScanRead
             /\ in_macro_definition
             /\ EndVerdict
             /\ OneEntryAdded]_vars

\* the list implementation has classified a start line, a body line, an end
\* line and a call of FOO: the table holds what the start and body-append
\* actions put there, and the classification of the call left it alone
C32_Witness ==
    /\ draft = "list"
    /\ pc = "scan"
    /\ ~in_macro_definition
    /\ macros = <<[name |-> FOO, content |-> <<LineText["PlainAdd"]>>]>>
    /\ next_line = 5
    /\ input[3] = "EndLine"
    /\ input[4] = "CallFOO"

(***************************************************************************)
(* C33                                                                     *)
(***************************************************************************)
\* what the three classification functions return for the line about to be
\* read, with the macro table of this state, when the scanner's
\* in-definition flag has the value in_def
TagWhen(in_def) ==
    IF draft = "list"
    THEN <<ListLex[Here].is_start[in_def].ret,
           ListLex[Here].is_end.ret,
           list_call_check(macros, ListLex[Here].toks).called>>
    ELSE <<BufLex[Here].is_start.ret,
           BufLex[Here].is_end,
           buf_is_macro_call(macros, BufLex[Here].call_token)>>

\* C33: the tag of a line depends on the line and the macro table only: it
\* is the same inside and outside a definition
C33_TagIndependentOfScannerState ==
    AtLine => TagWhen(TRUE) = TagWhen(FALSE)

(***************************************************************************)
(* C34                                                                     *)
(***************************************************************************)
\* both implementations have processed the input and neither has reported
\* anything
BothRanWithoutReport ==
    /\ run = 2
    /\ pc = "done"
    /\ history.reports = <<>>
    /\ reports = <<>>

\* C34: on an input neither implementation reports an error for, both
\* return the same value and write the same output text
C34_ImplementationsAgree ==
    BothRanWithoutReport
        => /\ ret = history.ret
           /\ Flat(am_content) = history.output

(***************************************************************************)
(* C35                                                                     *)
(***************************************************************************)
\* the first pass of src/pre_assembler.c reads, inside a definition, a line
\* is_macro_definition_start accepts but whose name fails is_valid_macro_name
\* or the duplicate check
ReadsRejectedStartInside ==
    /\ draft = "buffer"
    /\ pc = "pass1"
    /\ CanRead
    /\ in_macro_definition
    /\ BufLex[Here].is_start.ret
    /\ \/ ~is_valid_macro_name(BufLex[Here].is_start.name)
       \/ find_macro(macros, BufLex[Here].is_start.name) # 0

\* C35: in src/pre_assembler.c every name in the table is one
\* is_valid_macro_name accepts and no name is stored twice, and a rejected
\* start line leaves the name of the open definition as it was
C35_StoredNamesWereValidated ==
    [][draft = "buffer" =>
          /\ \A i \in 1..Len(macros') : is_valid_macro_name(macros'[i].name)
          /\ \A i, j \in 1..Len(macros') :
                 macros'[i].name = macros'[j].name => i = j
          /\ ReadsRejectedStartInside =>
                 current_macro_name' = current_macro_name]_vars

(***************************************************************************)
(* C36                                                                     *)
(***************************************************************************)
\* C36: in src/main.c, once report_error has been called in a pass no step
\* adds to the .am file (a step may only delete it) and no step opens it
C36_NoOutputAfterFirstReport ==
    [][(draft = "list" /\ pc = "scan" /\ has_errors) =>
          /\ am_content' = am_content \/ ~am_exists'
          /\ am_file' = "open" => am_file = "open"]_vars

\* the list implementation has read an ordinary line after the line it
\* reported: the output still holds only the line written before the report
C36_Witness ==
    /\ draft = "list"
    /\ pc = "scan"
    /\ has_errors
    /\ next_line = 4
    /\ input[1] = "PlainAdd"
    /\ input[2] = "EndLine"
    /\ input[3] = "PlainAdd"
    /\ am_file = "open"
    /\ am_content = <<LineText["PlainAdd"]>>

(***************************************************************************)
(* C37                                                                     *)
(***************************************************************************)
\* C37: in src/pre_assembler.c the code between the two passes closes the
\* input handle exactly once, whether or not the output file can be opened,
\* so that the step has one defined outcome
C37_HandlesClosedOnce ==
    [][(draft = "buffer" /\ pc = "pass1" /\ ~CanRead) =>
          /\ input_file_closes(has_errors_in_file, out_ok) = 1
          /\ pc' # "crashed"]_vars

(***************************************************************************)
(* C38                                                                     *)
(***************************************************************************)
\* C38: whenever src/pre_assembler.c stores a macro, every index add_macro
\* writes in the name field lies inside char name[MAX_LABEL_LENGTH], and the
\* stored name is terminated inside that array
C38_AddMacroWritesInsideName ==
    [][(draft = "buffer" /\ Len(macros') = Len(macros) + 1) =>
          /\ add_macro_name_writes(current_macro_name)
                 \subseteq 0 .. (MacroNameSize - 1)
          /\ add_macro_name_terminator(current_macro_name)
                 \in 0 .. (MacroNameSize - 1)]_vars

=============================================================================
